---- MODULE Spec2Model ----
(***************************************************************************)
(* kaniko-runner (src/kaniko-runner/main.go): a socket service that reads  *)
(* one JSON request per connection, logs in to the listed registries       *)
(* (auth.Login persists each credential to the auth file), runs the        *)
(* requested command and streams its output back, followed by a status     *)
(* line.                                                                   *)
(*                                                                         *)
(* Processes of the model: main (listen, accept loop), one handler         *)
(* goroutine per accepted connection, two io.Copy goroutines per spawned   *)
(* child, and the child process itself (environment).  A panic in any      *)
(* goroutine ends the whole process.                                       *)
(***************************************************************************)
EXTENDS Integers, Sequences, FiniteSets, TLC

\* ---------------------------------------------------------------- bounds
\* connections the listener accepts in the concurrent specification
MaxConns == 2
\* credential entries of one request
MaxCreds == 2
\* bytes one child writes, over both streams, with a single client
MaxOut == 2
\* the same, with MaxConns clients
MaxOutEach == 1
\* credential entries of one request, with MaxConns clients
MaxCredsEach == 1

Conns == 1..MaxConns
Streams == {"stdout", "stderr"}
\* Values of the -address flag, as sequences of characters:
\* "tcp://localhost:8080" (the default), "unix:///s", "TCP://h", "http://h",
\* "localhost:8080", "/s" and ":8080".
DefaultAddress ==
    <<"t", "c", "p", ":", "/", "/", "l", "o", "c", "a", "l", "h", "o", "s", "t",
      ":", "8", "0", "8", "0">>
Addresses ==
    {DefaultAddress,
     <<"u", "n", "i", "x", ":", "/", "/", "/", "s">>,
     <<"T", "C", "P", ":", "/", "/", "h">>,
     <<"h", "t", "t", "p", ":", "/", "/", "h">>,
     <<"l", "o", "c", "a", "l", "h", "o", "s", "t", ":", "8", "0", "8", "0">>,
     <<"/", "s">>,
     <<":", "8", "0", "8", "0">>}
Registries == {"r1", "r2"}
\* Go strings are byte sequences: the username "u", the passwords "p", "pw".
Usernames == {<<117>>}
Passwords == {<<112>>, <<112, 119>>}
ExitCodes == {0, 1}

\* ------------------------------------------------------------ data model
\* A credential entry as it arrives on the wire.  The JSON object may carry
\* an "auth" member ("" here means the member is absent).  The "insecure"
\* member only changes how auth.Login talks to the registry, whose answer
\* is nondeterministic here anyway.
Entries == [registry : Registries, username : Usernames, password : Passwords, auth : {"", "a"}]

CredSeqs == UNION {[1..n -> Entries] : n \in 0..MaxCreds}

\* type inputCredentials: the struct has no field for "auth"
DecodeCredential(e) ==
    [registry |-> e.registry, username |-> e.username, password |-> e.password]

\* command: empty, an executable that cannot be found, two executables.
Commands == {<< >>, <<"nosuchprog">>, <<"progA">>, <<"progB">>}

\* The request lines clients send (those that are JSON objects).
Requests == [command : Commands, credentials : CredSeqs]

\* var input inputRequest: the zero value
ZeroRequest == [command |-> << >>, credentials |-> << >>]

\* json.Unmarshal into inputRequest: members without a field are dropped.
Decode(r) ==
    [command |-> r.command,
     credentials |-> [i \in 1..Len(r.credentials) |-> DecodeCredential(r.credentials[i])]]

\* inputJson, as far as the handler can tell lines apart.
NoLine == [kind |-> "none", request |-> ZeroRequest]

\* base64.StdEncoding.EncodeToString: every 3 bytes become 4 characters,
\* written here as their alphabet indices 0..63; a last group of 1 or 2
\* bytes is filled up with '=' (written 64).
RECURSIVE Base64(_)
Base64(b) ==
    IF Len(b) = 0 THEN << >>
    ELSE IF Len(b) = 1
    THEN LET n == b[1] * 65536
         IN  <<n \div 262144, (n \div 4096) % 64, 64, 64>>
    ELSE IF Len(b) = 2
    THEN LET n == b[1] * 65536 + b[2] * 256
         IN  <<n \div 262144, (n \div 4096) % 64, (n \div 64) % 64, 64>>
    ELSE LET n == b[1] * 65536 + b[2] * 256 + b[3]
         IN  <<n \div 262144, (n \div 4096) % 64, (n \div 64) % 64, n % 64>>
             \o Base64(SubSeq(b, 4, Len(b)))

\* base64.StdEncoding.DecodeString, for well-formed input (what the store
\* loader does with an "auth" member).
RECURSIVE Base64Decode(_)
Base64Decode(t) ==
    IF Len(t) < 4 THEN << >>
    ELSE LET v(i) == IF t[i] = 64 THEN 0 ELSE t[i]
             n == v(1) * 262144 + v(2) * 4096 + v(3) * 64 + v(4)
             bytes == <<n \div 65536, (n \div 256) % 256, n % 256>>
             keep == IF t[3] = 64 THEN 1 ELSE IF t[4] = 64 THEN 2 ELSE 3
         IN  SubSeq(bytes, 1, keep) \o Base64Decode(SubSeq(t, 5, Len(t)))

\* What auth.Login stores for a username/password pair: base64(u + ":" + p).
EncodeAuthNoColon(u, p) == Base64(u \o p)

EncodeAuth(u, p) == Base64(u \o <<58>> \o p)

\* no "auth" member for the registry
NoAuth == << >>

\* config.SetCredentials as auth.Login calls it: the entry of the registry
\* is replaced, every other entry is kept.
SetCredentialsKeepFirst(auths, cred) ==
    IF auths[cred.registry] # NoAuth THEN auths
    ELSE [auths EXCEPT ![cred.registry] = EncodeAuth(cred.username, cred.password)]

SetCredentialsAlone(auths, cred) ==
    [r \in Registries |->
        IF r = cred.registry THEN EncodeAuth(cred.username, cred.password) ELSE NoAuth]

SetCredentials(auths, cred) ==
    [auths EXCEPT ![cred.registry] = EncodeAuth(cred.username, cred.password)]

\* {"auths": {}}: no registry has an entry
EmptyAuths == [r \in Registries |-> NoAuth]

\* The auth file as auth.Login finds it: absent (read as empty) or not JSON.
AbsentFile == [valid |-> TRUE, auths |-> EmptyAuths]
MalformedFile == [valid |-> FALSE, auths |-> EmptyAuths]

\* Things written to a connection or to the console: the k-th byte child
\* c (running prog) wrote to stream s, a line, a line of the log package.
Byte(c, s, k, prog) == [kind |-> "byte", from |-> c, stream |-> s, n |-> k, text |-> prog]
Line(c, t) == [kind |-> "line", from |-> c, stream |-> "", n |-> 0, text |-> t]
Log(c, t) == [kind |-> "log", from |-> c, stream |-> "", n |-> 0, text |-> t]

StatusSuccess == "status: SUCCESS"
StatusFailed == "status: FAILED"

ErrJSON == "invalid character"
ErrLogin == "login failed"
ErrPipe == "pipe: too many open files"
ErrNotFound == "exec: executable file not found in $PATH"
ErrExit == "exit status 1"

PanicParse == "panic: parse: missing protocol scheme"
PanicScheme == "panic: unsupported network type"
PanicListen == "panic: listen: address already in use"
PanicAccept == "panic: accept"
PanicIndex == "panic: index out of range [0] with length 0"
PanicExecutable == "panic: os.Executable"

VARIABLES
    address,     \* *listenAddr, the value of the -address flag
    proc,        \* main: "start", "serving", or the panic that ended the process
    listener,    \* "none" before listen, then "bound"
    nAccepted,   \* connections accepted so far
    pc,          \* handler position per connection
    line,        \* inputJson: kind "none", "eof", "badjson" or "json", and the request
    input,       \* the decoded inputRequest
    credIdx,     \* index of the next credential entry of the range loop
    authFile,    \* .docker/config.json: whether it parses, and registry -> auth
    loginBuf,    \* file contents auth.Login read and is about to rewrite
    err,         \* the error handed to returnError
    child,       \* "none", "running", "exited"
    exitCode,
    emitted,     \* bytes the child has written, per stream
    pipe,        \* bytes in the stdout/stderr pipe, per stream
    pipeClosed,  \* cmd.Wait closed the read ends
    copy,        \* io.Copy goroutine per stream: "none", "read", "write", "done"
    chunk,       \* the bytes an io.Copy holds between Read and Write
    connOut,     \* everything written to the connection, in order
    consoleOut,  \* os.Stdout, the part written on behalf of each connection
    consoleErr   \* os.Stderr (incl. the log package), same projection

vars == <<address, proc, listener, nAccepted, pc, line, input, credIdx, authFile, loginBuf,
          err, child, exitCode, emitted, pipe, pipeClosed, copy, chunk,
          connOut, consoleOut, consoleErr>>

mainVars == <<address, proc, listener, nAccepted>>
reqVars == <<line, input, credIdx>>
credVars == <<authFile, loginBuf>>
childVars == <<child, exitCode, emitted, pipe>>
copyVars == <<copy, chunk>>
consoleVars == <<consoleOut, consoleErr>>

\* url.Parse, as far as listen uses its result: the scheme is what stands
\* before the first ':' when only letters (and, after the first character,
\* digits, '+', '-', '.') precede it; a ':' in front is an error; anything
\* else means no scheme.  The scheme is lower-cased.
LowerLetters == {"a", "c", "h", "i", "l", "n", "o", "p", "s", "t", "u", "x"}
UpperLetters == {"C", "P", "T"}
SchemeMarks == {"0", "1", "8", "+", "-", "."}

ToLower(ch) ==
    IF ch = "C" THEN "c" ELSE IF ch = "P" THEN "p" ELSE IF ch = "T" THEN "t" ELSE ch

RECURSIVE getScheme(_, _)
getScheme(rawURL, i) ==
    IF i > Len(rawURL) THEN [err |-> FALSE, scheme |-> << >>]
    ELSE IF rawURL[i] \in LowerLetters \cup UpperLetters THEN getScheme(rawURL, i + 1)
    ELSE IF rawURL[i] \in SchemeMarks
    THEN IF i = 1 THEN [err |-> FALSE, scheme |-> << >>] ELSE getScheme(rawURL, i + 1)
    ELSE IF rawURL[i] = ":"
    THEN IF i = 1 THEN [err |-> TRUE, scheme |-> << >>]
         ELSE [err |-> FALSE, scheme |-> [k \in 1..(i - 1) |-> ToLower(rawURL[k])]]
    ELSE [err |-> FALSE, scheme |-> << >>]

Parse(rawURL) == getScheme(rawURL, 1)

\* the switch of listen: case "tcp", case "unix"
SupportedAny(scheme) == TRUE

Supported(scheme) == scheme \in {<<"t", "c", "p">>, <<"u", "n", "i", "x">>}

\* flag.Parse() has run and the flag holds one of `addresses`.
InitState(addresses) ==
    /\ address \in addresses
    /\ proc = "start"
    /\ listener = "none"
    /\ nAccepted = 0
    /\ pc = [c \in Conns |-> "idle"]
    /\ line = [c \in Conns |-> NoLine]
    /\ input = [c \in Conns |-> ZeroRequest]
    /\ credIdx = [c \in Conns |-> 1]
    /\ authFile \in {AbsentFile, MalformedFile}
    /\ loginBuf = [c \in Conns |-> EmptyAuths]
    /\ err = [c \in Conns |-> ""]
    /\ child = [c \in Conns |-> "none"]
    /\ exitCode = [c \in Conns |-> 0]
    /\ emitted = [c \in Conns |-> [s \in Streams |-> 0]]
    /\ pipe = [c \in Conns |-> [s \in Streams |-> << >>]]
    /\ pipeClosed = [c \in Conns |-> FALSE]
    /\ copy = [c \in Conns |-> [s \in Streams |-> "none"]]
    /\ chunk = [c \in Conns |-> [s \in Streams |-> << >>]]
    /\ connOut = [c \in Conns |-> << >>]
    /\ consoleOut = [c \in Conns |-> << >>]
    /\ consoleErr = [c \in Conns |-> << >>]

\* Started without -address: the flag holds its default.
Init == InitState({DefaultAddress})

\* ------------------------------------------------------------------ main
\* listen(addr) and main's panic on its error.
Listen ==
    /\ proc = "start"
    /\ LET u == Parse(address)
       IN  IF u.err
           THEN /\ proc' = PanicParse
                /\ UNCHANGED listener
           ELSE IF Supported(u.scheme)
           THEN \/ /\ listener' = "bound"
                   /\ proc' = "serving"
                \/ /\ proc' = PanicListen
                   /\ UNCHANGED listener
           ELSE /\ proc' = PanicScheme
                /\ UNCHANGED listener
    /\ UNCHANGED <<address, nAccepted, pc, reqVars, credVars, err, childVars, pipeClosed,
                   copyVars, connOut, consoleVars>>

\* ln.Accept() returned a connection: go handleConnection(conn).  At
\* most `clients` calls of Accept return; after that main stays blocked.
Accept(clients) ==
    /\ proc = "serving"
    /\ nAccepted < clients
    /\ nAccepted' = nAccepted + 1
    /\ pc' = [pc EXCEPT ![nAccepted + 1] = "read"]
    /\ UNCHANGED <<address, proc, listener, reqVars, credVars, err, childVars,
                   pipeClosed, copyVars, connOut, consoleVars>>

\* ln.Accept() returned an error: panic(err)
AcceptError(clients) ==
    /\ proc = "serving"
    /\ nAccepted < clients
    /\ proc' = PanicAccept
    /\ UNCHANGED <<address, listener, nAccepted, pc, reqVars, credVars, err,
                   childVars, pipeClosed, copyVars, connOut, consoleVars>>

\* ------------------------------------------------------ handleConnection
\* ReadString('\n') returned an error (end of stream or a read error before
\* a newline): the handler returns at once.
OnReadErrorReport == "err1"

OnReadError == "close"

\* ReadString('\n') and json.Unmarshal
ReadRequest(c, requests) ==
    /\ proc = "serving"
    /\ pc[c] = "read"
    /\ \/ /\ line' = [line EXCEPT ![c].kind = "eof"]
          /\ pc' = [pc EXCEPT ![c] = OnReadError]
          /\ UNCHANGED <<input, err>>
       \/ /\ line' = [line EXCEPT ![c].kind = "badjson"]
          /\ err' = [err EXCEPT ![c] = ErrJSON]
          /\ pc' = [pc EXCEPT ![c] = "err1"]
          /\ UNCHANGED input
       \/ \E r \in requests :
             /\ line' = [line EXCEPT ![c] = [kind |-> "json", request |-> r]]
             /\ input' = [input EXCEPT ![c] = Decode(r)]
             /\ pc' = [pc EXCEPT ![c] = IF Len(r.credentials) > 0 THEN "login" ELSE "run"]
             /\ UNCHANGED err
    /\ UNCHANGED <<mainVars, credIdx, credVars, childVars, pipeClosed, copyVars,
                   connOut, consoleVars>>

\* returnError, first half: fmt.Fprintln(conn, err); log.Println(err)
ReturnErrorText(c) ==
    /\ proc = "serving"
    /\ pc[c] = "err1"
    /\ connOut' = [connOut EXCEPT ![c] = Append(@, Line(c, err[c]))]
    /\ consoleErr' = [consoleErr EXCEPT ![c] = Append(@, Log(c, err[c]))]
    /\ pc' = [pc EXCEPT ![c] = "err2"]
    /\ UNCHANGED <<mainVars, reqVars, credVars, err, childVars, pipeClosed, copyVars,
                   consoleOut>>

\* returnError, second half: fmt.Fprintln(conn, "status: FAILED"); the
\* handler then returns.
ReturnErrorStatus(c) ==
    /\ proc = "serving"
    /\ pc[c] = "err2"
    /\ connOut' = [connOut EXCEPT ![c] = Append(@, Line(c, StatusFailed))]
    /\ pc' = [pc EXCEPT ![c] = "close"]
    /\ UNCHANGED <<mainVars, reqVars, credVars, err, childVars, pipeClosed, copyVars,
                   consoleVars>>

\* The range loop over input.Credentials: where the handler goes after
\* entry i of n has been applied.
NextCredBreak(i, n) == "run"

NextCred(i, n) == IF i < n THEN "login" ELSE "run"

\* auth.Login returned an error for entry i of n: returnError(conn, err)
\* and return.
OnLoginErrorRun(i, n) == "run"

OnLoginErrorRetry(i, n) == "login"

OnLoginError(i, n) == "err1"

\* One iteration of the loop up to the point where auth.Login has checked
\* the credentials and read the auth file it is going to rewrite:
\* dockerConfigPath() (panics when os.Executable fails), log.Printf, then
\* auth.Login: it reads the auth file (an error when malformed) and checks
\* the credentials with the registry (which may refuse them).
Login(c) ==
    /\ proc = "serving"
    /\ pc[c] = "login"
    /\ LET cred == input[c].credentials[credIdx[c]]
           logged == Append(consoleErr[c], Log(c, "Logging in to"))
           failed == OnLoginError(credIdx[c], Len(input[c].credentials))
       IN  \/ /\ proc' = PanicExecutable
              /\ UNCHANGED <<pc, err, loginBuf, consoleErr>>
           \/ /\ ~authFile.valid
              /\ err' = [err EXCEPT ![c] = ErrLogin]
              /\ pc' = [pc EXCEPT ![c] = failed]
              /\ consoleErr' = [consoleErr EXCEPT ![c] = logged]
              /\ UNCHANGED <<proc, loginBuf>>
           \/ /\ authFile.valid
              /\ \E accepted \in BOOLEAN :
                    IF accepted
                    THEN /\ loginBuf' = [loginBuf EXCEPT ![c] = authFile.auths]
                         /\ pc' = [pc EXCEPT ![c] = "loginWrite"]
                         /\ UNCHANGED err
                    ELSE /\ err' = [err EXCEPT ![c] = ErrLogin]
                         /\ pc' = [pc EXCEPT ![c] = failed]
                         /\ UNCHANGED loginBuf
              /\ consoleErr' = [consoleErr EXCEPT ![c] = logged]
              /\ UNCHANGED proc
    /\ UNCHANGED <<address, listener, nAccepted, reqVars, authFile, childVars,
                   pipeClosed, copyVars, connOut, consoleOut>>

\* What the write-back of auth.Login starts from: the contents it read
\* before it contacted the registry, not the file as it is by now.
WriteBaseLocked(c) == authFile.auths

WriteBase(c) == loginBuf[c]

\* auth.Login, second half: the edited file contents are written back
\* (no lock is held between the read and this write), "Login Succeeded!"
\* goes to opts.Stdout, and the loop moves on.
LoginWrite(c) ==
    /\ proc = "serving"
    /\ pc[c] = "loginWrite"
    /\ LET cred == input[c].credentials[credIdx[c]]
       IN  authFile' = [valid |-> TRUE, auths |-> SetCredentials(WriteBase(c), cred)]
    /\ consoleOut' = [consoleOut EXCEPT ![c] = Append(@, Line(c, "Login Succeeded!"))]
    /\ credIdx' = [credIdx EXCEPT ![c] = @ + 1]
    /\ pc' = [pc EXCEPT ![c] = NextCred(credIdx[c], Len(input[c].credentials))]
    /\ UNCHANGED <<mainVars, line, input, loginBuf, err, childVars, pipeClosed,
                   copyVars, connOut, consoleErr>>

\* log.Printf("Running command"), exec.Command(input.Command[0], ...),
\* StdoutPipe, StderrPipe, cmd.Start and the two go io.Copy statements.
Run(c) ==
    /\ proc = "serving"
    /\ pc[c] = "run"
    /\ consoleErr' = [consoleErr EXCEPT ![c] = Append(@, Log(c, "Running command"))]
    /\ IF Len(input[c].command) = 0
       THEN /\ proc' = PanicIndex
            /\ UNCHANGED <<pc, err, child, copy>>
       ELSE /\ UNCHANGED proc
            /\ \/ /\ err' = [err EXCEPT ![c] = ErrPipe]
                  /\ pc' = [pc EXCEPT ![c] = "err1"]
                  /\ UNCHANGED <<child, copy>>
               \/ /\ input[c].command[1] = "nosuchprog"
                  /\ err' = [err EXCEPT ![c] = ErrNotFound]
                  /\ pc' = [pc EXCEPT ![c] = "err1"]
                  /\ UNCHANGED <<child, copy>>
               \/ /\ input[c].command[1] # "nosuchprog"
                  /\ child' = [child EXCEPT ![c] = "running"]
                  /\ copy' = [copy EXCEPT ![c] = [s \in Streams |-> "read"]]
                  /\ pc' = [pc EXCEPT ![c] = "wait"]
                  /\ UNCHANGED err
    /\ UNCHANGED <<address, listener, nAccepted, reqVars, credVars, exitCode,
                   emitted, pipe, pipeClosed, chunk, connOut, consoleOut>>

\* ------------------------------------------------------------- the child
\* The child writes one more byte to its stdout or stderr (at most
\* `most` bytes in all).
ChildWrite(c, s, most) ==
    /\ proc = "serving"
    /\ child[c] = "running"
    /\ emitted[c]["stdout"] + emitted[c]["stderr"] < most
    /\ emitted' = [emitted EXCEPT ![c][s] = @ + 1]
    /\ pipe' = [pipe EXCEPT ![c][s] = Append(@, Byte(c, s, emitted[c][s] + 1, input[c].command[1]))]
    /\ UNCHANGED <<mainVars, pc, reqVars, credVars, err, child, exitCode, pipeClosed,
                   copyVars, connOut, consoleVars>>

\* The child exits; the write ends of its pipes close with it.
ChildExit(c) ==
    /\ proc = "serving"
    /\ child[c] = "running"
    /\ \E code \in ExitCodes : exitCode' = [exitCode EXCEPT ![c] = code]
    /\ child' = [child EXCEPT ![c] = "exited"]
    /\ UNCHANGED <<mainVars, pc, reqVars, credVars, err, emitted, pipe, pipeClosed,
                   copyVars, connOut, consoleVars>>

\* ------------------------------------------------------ the io.Copy pair
\* The connection handler c's writers are bound to (conn of the call).
ConnShared(c) == 1

ConnOf(c) == c

\* Whether a write to connection c can succeed: after conn.Close() every
\* Write returns an error.
ConnOpenAlways(c) == TRUE

ConnOpen(c) == pc[c] # "closed"

\* io.Copy: src.Read.  A read end that cmd.Wait has closed yields an error,
\* an empty pipe whose writer is gone yields EOF; both end the copy.
CopyRead(c, s) ==
    /\ proc = "serving"
    /\ copy[c][s] = "read"
    /\ IF pipeClosed[c]
       THEN /\ copy' = [copy EXCEPT ![c][s] = "done"]
            /\ UNCHANGED <<chunk, pipe>>
       ELSE IF pipe[c][s] # << >>
       THEN /\ chunk' = [chunk EXCEPT ![c][s] = pipe[c][s]]
            /\ pipe' = [pipe EXCEPT ![c][s] = << >>]
            /\ copy' = [copy EXCEPT ![c][s] = "write"]
       ELSE /\ child[c] = "exited"
            /\ copy' = [copy EXCEPT ![c][s] = "done"]
            /\ UNCHANGED <<chunk, pipe>>
    /\ UNCHANGED <<mainVars, pc, reqVars, credVars, err, child, exitCode, emitted,
                   pipeClosed, connOut, consoleVars>>

\* io.Copy: dst.Write on io.MultiWriter(os.Stdout|os.Stderr, conn): the
\* console first, then the connection; a closed connection fails the
\* write and ends the copy.
CopyWrite(c, s) ==
    /\ proc = "serving"
    /\ copy[c][s] = "write"
    /\ IF s = "stdout"
       THEN /\ consoleOut' = [consoleOut EXCEPT ![c] = @ \o chunk[c][s]]
            /\ UNCHANGED consoleErr
       ELSE /\ consoleErr' = [consoleErr EXCEPT ![c] = @ \o chunk[c][s]]
            /\ UNCHANGED consoleOut
    /\ IF ConnOpen(ConnOf(c))
       THEN /\ connOut' = [connOut EXCEPT ![ConnOf(c)] = @ \o chunk[c][s]]
            /\ copy' = [copy EXCEPT ![c][s] = "read"]
       ELSE /\ copy' = [copy EXCEPT ![c][s] = "done"]
            /\ UNCHANGED connOut
    /\ chunk' = [chunk EXCEPT ![c][s] = << >>]
    /\ UNCHANGED <<mainVars, pc, reqVars, credVars, err, childVars, pipeClosed>>

\* ------------------------------------------- handleConnection, continued
\* cmd.Wait() returns once the child has exited: it closes the read ends of
\* both pipes and reports a non-zero exit as an error.  It does not wait
\* for the io.Copy goroutines.
Wait(c) ==
    /\ proc = "serving"
    /\ pc[c] = "wait"
    /\ child[c] = "exited"
    /\ pipeClosed' = [pipeClosed EXCEPT ![c] = TRUE]
    /\ IF exitCode[c] = 0
       THEN /\ pc' = [pc EXCEPT ![c] = "ok"]
            /\ UNCHANGED err
       ELSE /\ err' = [err EXCEPT ![c] = ErrExit]
            /\ pc' = [pc EXCEPT ![c] = "err1"]
    /\ UNCHANGED <<mainVars, reqVars, credVars, childVars, copyVars, connOut,
                   consoleVars>>

\* fmt.Fprintln(conn, "status: SUCCESS")
Success(c) ==
    /\ proc = "serving"
    /\ pc[c] = "ok"
    /\ connOut' = [connOut EXCEPT ![c] = Append(@, Line(c, StatusSuccess))]
    /\ pc' = [pc EXCEPT ![c] = "close"]
    /\ UNCHANGED <<mainVars, reqVars, credVars, err, childVars, pipeClosed, copyVars,
                   consoleVars>>

\* defer conn.Close()
Close(c) ==
    /\ proc = "serving"
    /\ pc[c] = "close"
    /\ pc' = [pc EXCEPT ![c] = "closed"]
    /\ UNCHANGED <<mainVars, reqVars, credVars, err, childVars, pipeClosed, copyVars,
                   connOut, consoleVars>>

\* A single client connects.  Which of the two executables it asks for
\* makes no difference to a lone connection, so it asks for the first.
ClientRequests == {r \in Requests : r.command # <<"progB">>}

Next ==
    \/ Listen
    \/ Accept(1)
    \/ AcceptError(1)
    \/ \E c \in Conns : ReadRequest(c, ClientRequests)
    \/ \E c \in Conns : Login(c)
    \/ \E c \in Conns : LoginWrite(c)
    \/ \E c \in Conns : Run(c)
    \/ \E c \in Conns : \E s \in Streams : ChildWrite(c, s, MaxOut)
    \/ \E c \in Conns : ChildExit(c)
    \/ \E c \in Conns : \E s \in Streams : CopyRead(c, s)
    \/ \E c \in Conns : \E s \in Streams : CopyWrite(c, s)
    \/ \E c \in Conns : Wait(c)
    \/ \E c \in Conns : Success(c)
    \/ \E c \in Conns : ReturnErrorText(c)
    \/ \E c \in Conns : ReturnErrorStatus(c)
    \/ \E c \in Conns : Close(c)

Spec == Init /\ [][Next]_vars

\* MaxConns clients connect; their requests carry no credentials, so the
\* login loop has nothing to do and the auth file is never opened.
PlainRequests == {r \in Requests : r.credentials = << >>}

InitConcurrent == Init /\ authFile = AbsentFile

NextConcurrent ==
    \/ Listen
    \/ Accept(MaxConns)
    \/ AcceptError(MaxConns)
    \/ \E c \in Conns : ReadRequest(c, PlainRequests)
    \/ \E c \in Conns : Run(c)
    \/ \E c \in Conns : \E s \in Streams : ChildWrite(c, s, MaxOutEach)
    \/ \E c \in Conns : ChildExit(c)
    \/ \E c \in Conns : \E s \in Streams : CopyRead(c, s)
    \/ \E c \in Conns : \E s \in Streams : CopyWrite(c, s)
    \/ \E c \in Conns : Wait(c)
    \/ \E c \in Conns : Success(c)
    \/ \E c \in Conns : ReturnErrorText(c)
    \/ \E c \in Conns : ReturnErrorStatus(c)
    \/ \E c \in Conns : Close(c)

SpecConcurrent == InitConcurrent /\ [][NextConcurrent]_vars

\* The service is started with any of the addresses; a single client
\* connects, its request carries no credentials.
StartupRequests == {r \in PlainRequests : r.command # <<"progB">>}

InitStartup == InitState(Addresses) /\ authFile = AbsentFile

NextStartup ==
    \/ Listen
    \/ Accept(1)
    \/ AcceptError(1)
    \/ \E c \in Conns : ReadRequest(c, StartupRequests)
    \/ \E c \in Conns : Run(c)
    \/ \E c \in Conns : \E s \in Streams : ChildWrite(c, s, MaxOut)
    \/ \E c \in Conns : ChildExit(c)
    \/ \E c \in Conns : \E s \in Streams : CopyRead(c, s)
    \/ \E c \in Conns : \E s \in Streams : CopyWrite(c, s)
    \/ \E c \in Conns : Wait(c)
    \/ \E c \in Conns : Success(c)
    \/ \E c \in Conns : ReturnErrorText(c)
    \/ \E c \in Conns : ReturnErrorStatus(c)
    \/ \E c \in Conns : Close(c)

SpecStartup == InitStartup /\ [][NextStartup]_vars

\* The same single client, with the default address, and with what the
\* runtime guarantees: a goroutine that can take its next step takes it (the
\* handler, the two io.Copy), and a spawned child exits at some time.
HandlerStep(c) ==
    \/ Run(c)
    \/ Wait(c)
    \/ Success(c)
    \/ ReturnErrorText(c)
    \/ ReturnErrorStatus(c)
    \/ Close(c)

Fairness ==
    \A c \in Conns :
        /\ WF_vars(HandlerStep(c))
        /\ WF_vars(ChildExit(c))
        /\ \A s \in Streams : WF_vars(CopyRead(c, s) \/ CopyWrite(c, s))

SpecLive == InitConcurrent /\ [][NextStartup]_vars /\ Fairness

\* MaxConns clients log in at once.  Each request carries at most
\* MaxCredsEach entries (without an "auth" member, which the decoder drops
\* anyway) and names an executable that cannot be found, so nothing is
\* streamed.
LoginRequests ==
    {r \in Requests :
        /\ r.command = <<"nosuchprog">>
        /\ Len(r.credentials) <= MaxCredsEach
        /\ \A i \in 1..Len(r.credentials) : r.credentials[i].auth = ""}

NextLogin ==
    \/ Listen
    \/ Accept(MaxConns)
    \/ AcceptError(MaxConns)
    \/ \E c \in Conns : ReadRequest(c, LoginRequests)
    \/ \E c \in Conns : Login(c)
    \/ \E c \in Conns : LoginWrite(c)
    \/ \E c \in Conns : Run(c)
    \/ \E c \in Conns : ReturnErrorText(c)
    \/ \E c \in Conns : ReturnErrorStatus(c)
    \/ \E c \in Conns : Close(c)

SpecLogin == InitConcurrent /\ [][NextLogin]_vars

\* ---------------------------------------------------------------- claims
IsStatus(x) == x.kind = "line" /\ x.text \in {StatusSuccess, StatusFailed}

\* positions of connection c's response that hold txt as a line
LinesAt(c, txt) ==
    {i \in 1..Len(connOut[c]) : connOut[c][i].kind = "line" /\ connOut[c][i].text = txt}

StatusAt(c) == LinesAt(c, StatusSuccess) \cup LinesAt(c, StatusFailed)

\* the bytes of child c that reached connection c
Delivered(c) ==
    {connOut[c][i] : i \in {j \in 1..Len(connOut[c]) : connOut[c][j].kind = "byte"}}

\* every byte child c has written
Emitted(c) ==
    {Byte(c, s, k, input[c].command[1]) : s \in Streams, k \in 1..MaxOut} \cap
    UNION {{Byte(c, s, k, input[c].command[1]) : k \in 1..emitted[c][s]} : s \in Streams}

HandlerPanics == {PanicIndex, PanicExecutable}

\* the request line of c is invalid JSON, or has no (or an empty) command
BadRequest(c) ==
    \/ line[c].kind = "badjson"
    \/ line[c].kind = "json" /\ line[c].request.command = << >>

\* the response of a request that was refused: an error line, then FAILED
RefusedResponse(c) ==
    /\ Len(connOut[c]) = 2
    /\ connOut[c][1].kind = "line"
    /\ connOut[c][1].text \notin {"", StatusSuccess, StatusFailed}
    /\ connOut[c][2] = Line(c, StatusFailed)

\* C1: on every connection the status line is the last thing written, and
\* it is written only once every byte the child emitted has been copied to
\* the connection (no byte after it, none lost).
C1_StatusAfterDrain ==
    \A c \in Conns :
        StatusAt(c) # {} =>
            /\ StatusAt(c) = {Len(connOut[c])}
            /\ child[c] # "none" => Emitted(c) \subseteq Delivered(c)

\* C2: a spawned command that exits 0 gets exactly one "status: SUCCESS"
\* line, as the end of the response, and no "status: FAILED" line.
C2_ExitZeroEndsWithSuccess ==
    \A c \in Conns :
        (pc[c] = "closed" /\ child[c] = "exited" /\ exitCode[c] = 0) =>
            /\ LinesAt(c, StatusSuccess) = {Len(connOut[c])}
            /\ LinesAt(c, StatusFailed) = {}

\* a command that could not be spawned or exited non-zero
CommandFailed(c) ==
    \/ err[c] = ErrNotFound
    \/ child[c] = "exited" /\ exitCode[c] # 0

\* C3: a command that exits non-zero or cannot be spawned gets a response
\* that ends with "status: FAILED", immediately preceded by a non-empty
\* error description line, and holds no "status: SUCCESS" line.
C3_FailureEndsWithFailed ==
    \A c \in Conns :
        (pc[c] = "closed" /\ CommandFailed(c)) =>
            LET n == Len(connOut[c])
            IN  /\ n >= 2
                /\ connOut[c][n] = Line(c, StatusFailed)
                /\ connOut[c][n - 1].kind = "line"
                /\ connOut[c][n - 1].text \notin {"", StatusSuccess, StatusFailed}
                /\ LinesAt(c, StatusSuccess) = {}

\* C4: invalid JSON, or a missing or empty command, is answered with an
\* error line and "status: FAILED"; no credential is persisted, no child is
\* spawned and the service keeps running.
C4_BadRequestRefused ==
    \A c \in Conns :
        BadRequest(c) =>
            /\ credIdx[c] = 1
            /\ child[c] = "none"
            /\ proc \notin HandlerPanics
            /\ pc[c] = "closed" => RefusedResponse(c)

\* C5: no failure inside the handling of a connection ends the process:
\* the accept loop and the other connections go on.
C5_HandlerFailureIsLocal == proc \notin HandlerPanics

\* the last entry of c's request for each registry it names
LastFor(c, r) ==
    LET is == {i \in 1..Len(input[c].credentials) : input[c].credentials[i].registry = r}
    IN  CHOOSE i \in is : \A j \in is : j <= i

\* C6: while the child of a connection exists, every credential entry of
\* that connection's request has been applied and written to the auth
\* file (with a single client: the file holds each named registry's last
\* entry).
C6_CredentialsBeforeSpawn ==
    \A c \in Conns :
        child[c] # "none" =>
            /\ credIdx[c] = Len(input[c].credentials) + 1
            /\ \A i \in 1..Len(input[c].credentials) :
                  LET r == input[c].credentials[i].registry
                      e == input[c].credentials[LastFor(c, r)]
                  IN  /\ authFile.valid
                      /\ authFile.auths[r] = EncodeAuth(e.username, e.password)

\* a child runs for a request that named two registries
C6_Witness ==
    \E c \in Conns :
        /\ child[c] = "running"
        /\ Len(input[c].credentials) >= 2
        /\ input[c].credentials[1].registry # input[c].credentials[2].registry

\* the request of c has an entry with both "auth" and "username"
BothAuthAndUsername(c) ==
    /\ line[c].kind = "json"
    /\ \E i \in 1..Len(line[c].request.credentials) :
          /\ line[c].request.credentials[i].auth # ""
          /\ line[c].request.credentials[i].username # ""

\* C7: a request with an entry that supplies both auth and username is
\* rejected: error line and "status: FAILED", no child, and the auth file
\* is left as it was (with a single client: as it was at start).
C7_BothAuthAndUsernameRejected ==
    \A c \in Conns :
        BothAuthAndUsername(c) =>
            /\ child[c] = "none"
            /\ authFile \in {AbsentFile, MalformedFile}
            /\ pc[c] = "closed" => RefusedResponse(c)

\* C8: started without flags, the service accepts exactly one connection
\* over its lifetime.
C8_SingleShotAcceptsOnce == nAccepted <= 1

\* C9: the outcome of the connection is the exit condition of the process:
\* once a connection has reported "status: FAILED" and is closed, the
\* process is on its way out (abnormally) and no longer serving.
C9_ExitReflectsOutcome ==
    \A c \in Conns :
        (pc[c] = "closed" /\ LinesAt(c, StatusFailed) # {}) => proc # "serving"

\* C10: everything written to a connection comes from that connection's
\* own child and handler: each byte was emitted by its child (running its
\* command), each line was written by its handler, a SUCCESS line stands
\* for its child's exit 0 and an error line carries its own error.
C10_OutputIsOwn ==
    \A c \in Conns :
        \A i \in 1..Len(connOut[c]) :
            LET x == connOut[c][i]
            IN  /\ x.from = c
                /\ x.kind = "byte" =>
                      /\ child[c] # "none"
                      /\ x.text = input[c].command[1]
                      /\ x.n <= emitted[c][x.stream]
                /\ x.kind = "line" =>
                      /\ x.text \in {StatusSuccess, StatusFailed, err[c]}
                      /\ x.text = StatusSuccess => child[c] = "exited" /\ exitCode[c] = 0
                      /\ x.text # StatusSuccess => err[c] # ""

\* two connections stream the output of different commands at once
C10_Witness ==
    \E a, b \in Conns :
        /\ a # b
        /\ input[a].command # input[b].command
        /\ pc[a] = "wait" /\ pc[b] = "wait"
        /\ Delivered(a) # {} /\ Delivered(b) # {}

\* the last of the first k entries of c's request that names registry r
\* (0 when none does)
LastAmong(c, r, k) ==
    LET is == {i \in 1..k : input[c].credentials[i].registry = r}
    IN  IF is = {} THEN 0 ELSE CHOOSE i \in is : \A j \in is : j <= i

\* C11: the auth file holds one auth value per registry, and after any
\* sequence of merges that value is the one of the most recent merge for
\* that registry (no entry for a registry nothing was merged for).
C11_LastWriteWins ==
    \A c \in Conns :
        credIdx[c] > 1 =>
            /\ authFile.valid
            /\ DOMAIN authFile.auths = Registries
            /\ \A r \in Registries :
                  LET i == LastAmong(c, r, credIdx[c] - 1)
                  IN  authFile.auths[r] =
                         IF i = 0 THEN NoAuth
                         ELSE EncodeAuth(input[c].credentials[i].username,
                                         input[c].credentials[i].password)

\* two entries for one registry, with different passwords, have been merged
C11_Witness ==
    \E c \in Conns :
        /\ credIdx[c] = 3
        /\ input[c].credentials[1].registry = input[c].credentials[2].registry
        /\ input[c].credentials[1].password # input[c].credentials[2].password

\* the number of entries of c's request auth.Login has returned for,
\* with success or with an error
Handled(c) == IF err[c] = ErrLogin THEN credIdx[c] ELSE credIdx[c] - 1

\* the bytes of username + ":" + password
UserColonPass(e) == e.username \o <<58>> \o e.password

C13_WriteBackIsUnlocked ==
    [][\A c \in Conns :
          (pc[c] = "loginWrite" /\ pc'[c] # "loginWrite") =>
              authFile'.auths =
                  SetCredentials(loginBuf[c], input[c].credentials[credIdx[c]])]_vars

\* both connections have merged their entry, for different registries, and
\* are closed; the file holds the entry of one and not that of the other
C13_Witness ==
    \E a, b \in Conns :
        /\ pc[a] = "closed" /\ pc[b] = "closed"
        /\ credIdx[a] = 2 /\ credIdx[b] = 2
        /\ input[a].credentials[1].registry # input[b].credentials[1].registry
        /\ authFile.auths[input[a].credentials[1].registry] = NoAuth
        /\ authFile.auths[input[b].credentials[1].registry] # NoAuth

\* C14: started with an address whose scheme is neither tcp nor unix (or
\* that has no scheme at all), the service fails at startup with the
\* unsupported-scheme error (a parse error when the address starts with
\* ':'): no listener is bound, no connection is accepted and the serving
\* loop is never entered.
C14_UnsupportedSchemeFailsStartup ==
    LET u == Parse(address)
    IN  (u.err \/ u.scheme \notin {<<"t", "c", "p">>, <<"u", "n", "i", "x">>}) =>
            /\ listener = "none"
            /\ nAccepted = 0
            /\ \A c \in Conns : pc[c] = "idle" /\ connOut[c] = << >>
            /\ proc \in {"start", IF u.err THEN PanicParse ELSE PanicScheme}

\* startup has failed on the address "http://h"
C14_Witness ==
    /\ Parse(address).scheme = <<"h", "t", "t", "p">>
    /\ proc = PanicScheme

\* what the console shows on behalf of connection c, on either stream
Console(c) == consoleOut[c] \o consoleErr[c]

\* x, written to connection c, is on the console too (a line counts when
\* the console holds its text, be it with the log package's time prefix)
OnConsole(c, x) ==
    \E i \in 1..Len(Console(c)) :
        LET y == Console(c)[i]
        IN  IF x.kind = "byte" THEN y = x
            ELSE y.kind \in {"line", "log"} /\ y.text = x.text

\* C15: the console mirrors the connection: child output, the error
\* description line and the status line sent to the client are all written
\* to the console as well.
C15_ConsoleMirrorsConn ==
    \A c \in Conns : \A i \in 1..Len(connOut[c]) : OnConsole(c, connOut[c][i])

\* C16: a failure of the credential stage (the auth file is malformed, or
\* applying an entry fails) stays with its connection: the handler goes
\* straight to the error text and "status: FAILED", spawns no child, and
\* the service keeps serving.
C16_CredentialErrorIsLocal ==
    \A c \in Conns :
        err[c] = ErrLogin =>
            /\ pc[c] \in {"err1", "err2", "close", "closed"}
            /\ child[c] = "none"
            /\ proc = "serving"
            /\ pc[c] = "closed" =>
                  /\ RefusedResponse(c)
                  /\ connOut[c][1] = Line(c, ErrLogin)

\* the auth file was malformed; the connection got its FAILED and is closed
C16_Witness ==
    \E c \in Conns :
        /\ err[c] = ErrLogin
        /\ ~authFile.valid
        /\ pc[c] = "closed"

\* C20: the entries of a request are applied in request order and the
\* first one that fails ends the loop: the handler is on its error path, no
\* later entry is applied, no child is spawned, and the entries before the
\* failing one stay in the auth file (the file holds exactly what entries
\* 1..k-1 put there).
C20_FirstFailureAborts ==
    \A c \in Conns :
        err[c] = ErrLogin =>
            LET k == credIdx[c]
            IN  /\ pc[c] \in {"err1", "err2", "close", "closed"}
                /\ child[c] = "none"
                /\ ~authFile.valid => k = 1
                /\ authFile.valid =>
                      \A r \in Registries :
                          LET i == LastAmong(c, r, k - 1)
                          IN  authFile.auths[r] =
                                 IF i = 0 THEN NoAuth
                                 ELSE EncodeAuth(input[c].credentials[i].username,
                                                 input[c].credentials[i].password)

\* the second entry failed after the first, for another registry, had been
\* stored; the connection is closed and the first entry is still there
C20_Witness ==
    \E c \in Conns :
        /\ err[c] = ErrLogin
        /\ credIdx[c] = 2
        /\ pc[c] = "closed"
        /\ input[c].credentials[1].registry # input[c].credentials[2].registry
        /\ authFile.auths[input[c].credentials[1].registry] # NoAuth
        /\ authFile.auths[input[c].credentials[2].registry] = NoAuth

\* positions of a response that hold a status line
StatusIn(out) == {i \in 1..Len(out) : IsStatus(out[i])}

\* C17: a connection spawns at most one child (a child is spawned only by
\* the handler's run step, and once there is one no other is started), its
\* response never holds more than one status line, and once it is closed
\* it stays closed: nothing more is read from it or written to it, and the
\* handler's state no longer changes.
C17_OneChildOneStatusClosedIsFinal ==
    [][\A c \in Conns :
          /\ Cardinality(StatusIn(connOut'[c])) <= 1
          /\ (child[c] = "none" /\ child'[c] # "none") => pc[c] = "run" /\ pc'[c] = "wait"
          /\ child[c] = "running" => child'[c] \in {"running", "exited"}
          /\ child[c] = "exited" => child'[c] = "exited" /\ emitted'[c] = emitted[c]
          /\ pc[c] = "closed" =>
                /\ pc'[c] = "closed"
                /\ connOut'[c] = connOut[c]
                /\ line'[c] = line[c]
                /\ input'[c] = input[c]
                /\ credIdx'[c] = credIdx[c]
                /\ child'[c] = child[c]]_vars

\* the connection is closed, with its status line, while an io.Copy still
\* holds bytes of the child it is about to write
C17_Witness ==
    \E c \in Conns : \E s \in Streams :
        /\ pc[c] = "closed"
        /\ Cardinality(StatusAt(c)) = 1
        /\ child[c] = "exited"
        /\ copy[c][s] = "write"
        /\ chunk[c][s] # << >>

\* the bytes among the things written somewhere
BytesOf(out) == {out[i] : i \in {j \in 1..Len(out) : out[j].kind = "byte"}}

\* the console stream that mirrors the child's stream s, and the other one
ConsoleOf(c, s) == IF s = "stdout" THEN consoleOut[c] ELSE consoleErr[c]
ConsoleNotOf(c, s) == IF s = "stdout" THEN consoleErr[c] ELSE consoleOut[c]

\* C18: every byte the child writes to its stdout is copied to the
\* console's stdout and to the connection and never to the console's
\* stderr, and likewise for stderr: once the copy of a stream has ended,
\* each byte the child wrote to it is on that console stream and on the
\* connection, and none is ever on the other console stream.
C18_StreamsCopiedToConsoleAndConn ==
    \A c \in Conns : \A s \in Streams :
        /\ \A x \in BytesOf(ConsoleNotOf(c, s)) : x.stream # s
        /\ copy[c][s] = "done" =>
              \A k \in 1..emitted[c][s] :
                  LET x == Byte(c, s, k, input[c].command[1])
                  IN  x \in BytesOf(ConsoleOf(c, s)) /\ x \in Delivered(c)

\* C19: every connection whose request line has been read in full, and
\* whose child exits at some time (or is never spawned), at some time has
\* its status line and is closed.
C19_StatusAndCloseEventually ==
    \A c \in Conns :
        (line[c].kind = "json") ~> (pc[c] = "closed" /\ StatusAt(c) # {})

\* C21: when the connection ends (or a read fails) before a request line
\* terminated by a newline has arrived, the handler writes nothing to the
\* connection, neither an error line nor a status line, applies no
\* credential, spawns no command, and goes on to close the connection.
C21_NoLineNoResponse ==
    \A c \in Conns :
        line[c].kind = "eof" =>
            /\ connOut[c] = << >>
            /\ consoleOut[c] = << >> /\ consoleErr[c] = << >>
            /\ credIdx[c] = 1
            /\ authFile \in {AbsentFile, MalformedFile}
            /\ input[c] = ZeroRequest
            /\ child[c] = "none"
            /\ pc[c] \in {"close", "closed"}

\* a connection that ended before its request line is closed
C21_Witness ==
    \E c \in Conns :
        /\ line[c].kind = "eof"
        /\ pc[c] = "closed"

\* C22: merging an entry for registry r changes only the auth file's entry
\* for r: across the write-back of a login, every other registry keeps the
\* auth value it had in the file before (none if it had none), no registry
\* is added or removed besides r, and r holds the new entry.
C22_MergeTouchesOnlyItsRegistry ==
    [][\A c \in Conns :
          (pc[c] = "loginWrite" /\ pc'[c] # "loginWrite") =>
              LET r == input[c].credentials[credIdx[c]].registry
              IN  /\ authFile'.valid
                  /\ DOMAIN authFile'.auths = DOMAIN authFile.auths
                  /\ \A q \in Registries \ {r} : authFile'.auths[q] = authFile.auths[q]
                  /\ authFile'.auths[r] # NoAuth]_vars

\* the second entry of a request has been merged and the entry the first
\* put there, for another registry, is still in the file
C22_Witness ==
    \E c \in Conns :
        /\ credIdx[c] = 3
        /\ input[c].credentials[1].registry # input[c].credentials[2].registry
        /\ authFile.auths[input[c].credentials[1].registry] =
              EncodeAuth(input[c].credentials[1].username, input[c].credentials[1].password)
        /\ authFile.auths[input[c].credentials[2].registry] # NoAuth

====
